---- MODULE Spec2Model ----
(***************************************************************************)
(* News_Companion_Frontend: src/components/RichText.tsx, the article and   *)
(* longform requests of src/pages/ArticleJsonPage.tsx and the queries of   *)
(* src/components/Chatbot.tsx.                                             *)
(*                                                                         *)
(* A string is a sequence of one-character strings.  A markup string is    *)
(* kept with its lexical structure, a sequence of tokens (start tag, end   *)
(* tag, comment, character data); Chars gives the characters it is written *)
(* with.  The platform calls of the component (DOMParser.parseFromString,  *)
(* Node.textContent, replaceChild, removeAttribute, innerHTML, ...) are    *)
(* modelled by what the HTML and DOM standards make them do on the tags    *)
(* of TagNames.                                                            *)
(*                                                                         *)
(* Spec is one RichText call; SpecWalk calls walk on any node of a parsed  *)
(* body; SpecCalls interleaves the sanitizeHtml calls of two messages;     *)
(* SpecPage is ArticleJsonPage with its three effects, its requests and    *)
(* the events of the user; SpecChat is the Chatbot with its effects, its   *)
(* queries and the events of the user and of the parent.  Each keeps the   *)
(* variables of the others fixed.                                          *)
(***************************************************************************)
EXTENDS Naturals, Sequences, FiniteSets

(* ------------------------------ bounds -------------------------------- *)

\* longest input, in tokens
MaxLen == 3

(* ------------------------------ strings ------------------------------- *)

LF == "\n"
CR == "\r"
TAB == "\t"
SP == " "
QUOT == "\""

UpperLetters == <<"A","B","C","D","E","F","G","H","I","J","K","L","M",
                  "N","O","P","Q","R","S","T","U","V","W","X","Y","Z">>
LowerLetters == <<"a","b","c","d","e","f","g","h","i","j","k","l","m",
                  "n","o","p","q","r","s","t","u","v","w","x","y","z">>

Range(s) == { s[i] : i \in DOMAIN s }

IsLetter(c) == c \in Range(UpperLetters) \cup Range(LowerLetters)

LowerChar(c) ==
  IF c \in Range(UpperLetters)
  THEN LowerLetters[CHOOSE i \in DOMAIN UpperLetters : UpperLetters[i] = c]
  ELSE c

UpperChar(c) ==
  IF c \in Range(LowerLetters)
  THEN UpperLetters[CHOOSE i \in DOMAIN LowerLetters : LowerLetters[i] = c]
  ELSE c

RECURSIVE ToLowerCase(_)
\* String.prototype.toLowerCase
ToLowerCase(s) ==
  IF s = <<>> THEN <<>> ELSE <<LowerChar(Head(s))>> \o ToLowerCase(Tail(s))

RECURSIVE ToUpperCase(_)
\* String.prototype.toUpperCase
ToUpperCase(s) ==
  IF s = <<>> THEN <<>> ELSE <<UpperChar(Head(s))>> \o ToUpperCase(Tail(s))

\* String.prototype.startsWith
StartsWith(s, p) == Len(p) <= Len(s) /\ SubSeq(s, 1, Len(p)) = p

\* the white space String.prototype.trim removes (of the characters modelled)
IsTrimSpace(c) == c \in {SP, TAB, LF, CR}

RECURSIVE TrimStart(_)
TrimStart(s) ==
  IF s # <<>> /\ IsTrimSpace(Head(s)) THEN TrimStart(Tail(s)) ELSE s

RECURSIVE TrimEnd(_)
TrimEnd(s) ==
  IF s # <<>> /\ IsTrimSpace(s[Len(s)]) THEN TrimEnd(SubSeq(s, 1, Len(s) - 1)) ELSE s

\* String.prototype.trim
Trim(s) == TrimEnd(TrimStart(s))

RECURSIVE Flatten(_)
Flatten(ss) == IF ss = <<>> THEN <<>> ELSE Head(ss) \o Flatten(Tail(ss))

RemoveAt(s, i) == SubSeq(s, 1, i - 1) \o SubSeq(s, i + 1, Len(s))

\* s with x at position i
ReplaceAt(s, i, x) == SubSeq(s, 1, i - 1) \o <<x>> \o SubSeq(s, i + 1, Len(s))

Last(s) == s[Len(s)]

\* the names and values the model writes
S_a == <<"a">>
S_div == <<"d","i","v">>
S_span == <<"s","p","a","n">>
S_pre == <<"p","r","e">>
S_html == <<"h","t","m","l">>
S_head == <<"h","e","a","d">>
S_body == <<"b","o","d","y">>
S_on == <<"o","n">>
S_style == <<"s","t","y","l","e">>
S_href == <<"h","r","e","f">>
S_title == <<"t","i","t","l","e">>
S_target == <<"t","a","r","g","e","t">>
S_rel == <<"r","e","l">>
S_class == <<"c","l","a","s","s">>
S_onclick == <<"o","n","c","l","i","c","k">>
S_ONCLICK == <<"O","N","C","L","I","C","K">>
S_blank == <<"_","b","l","a","n","k">>
S_self == <<"_","s","e","l","f">>
S_noopener == <<"n","o","o","p","e","n","e","r",SP,"n","o","r","e","f","e","r","r","e","r">>
S_http == <<"h","t","t","p",":","/","/">>
S_https == <<"h","t","t","p","s",":","/","/">>
S_mailto == <<"m","a","i","l","t","o",":">>
S_slash == <<"/">>
S_hash == <<"#">>
S_javascript == <<"j","a","v","a","s","c","r","i","p","t",":","x">>
S_httpsUrl == <<SP,"h","t","t","p","s",":","/","/","e">>
S_x == <<"x">>
S_c == <<"c">>
S_PRE == <<"P","R","E">>

(* ------------------------------ tokens -------------------------------- *)

\* An attribute as written: its name as spelled and its (decoded) value.
Attr(n, v) == [name |-> n, value |-> v]

StartTag(n, as) == [t |-> "start", name |-> n, attrs |-> as, data |-> <<>>, src |-> <<>>]
EndTag(n) == [t |-> "end", name |-> n, attrs |-> <<>>, data |-> <<>>, src |-> <<>>]
Comment(d) == [t |-> "comment", name |-> <<>>, attrs |-> <<>>, data |-> d, src |-> <<>>]
\* character data: src is what is written, data the characters it stands for
Text(w, d) == [t |-> "text", name |-> <<>>, attrs |-> <<>>, data |-> d, src |-> w]

\* the serializer's escaping of a character of a Text node
EscapeTextChar(c) ==
  CASE c = "&" -> <<"&","a","m","p",";">>
    [] c = "<" -> <<"&","l","t",";">>
    [] c = ">" -> <<"&","g","t",";">>
    [] OTHER -> <<c>>

EscapeText(d) == Flatten([i \in DOMAIN d |-> EscapeTextChar(d[i])])

\* the serializer's escaping of a character of an attribute value
EscapeAttrChar(c) ==
  CASE c = "&" -> <<"&","a","m","p",";">>
    [] c = QUOT -> <<"&","q","u","o","t",";">>
    [] OTHER -> <<c>>

EscapeAttr(v) == Flatten([i \in DOMAIN v |-> EscapeAttrChar(v[i])])

AttrChars(a) == <<SP>> \o a.name \o <<"=", QUOT>> \o EscapeAttr(a.value) \o <<QUOT>>

\* the characters a token is written with
TokenChars(k) ==
  CASE k.t = "start" ->
         <<"<">> \o k.name \o Flatten([i \in DOMAIN k.attrs |-> AttrChars(k.attrs[i])]) \o <<">">>
    [] k.t = "end" -> <<"<", "/">> \o k.name \o <<">">>
    [] k.t = "comment" -> <<"<","!","-","-">> \o k.data \o <<"-","-",">">>
    [] OTHER -> k.src

\* the string a token sequence is
Chars(ks) == Flatten([i \in DOMAIN ks |-> TokenChars(ks[i])])

\* the tags of the inputs: div is outside the allowlist and, like pre, a
\* "special" element of the HTML parser; a is a formatting element; span is
\* an ordinary one
TagNames == {S_div, S_span, S_a, S_pre}

\* the tokens the inputs are made of
Tokens ==
  { StartTag(S_div, <<Attr(S_onclick, S_x)>>),
    StartTag(S_span, <<Attr(S_style, S_x), Attr(S_ONCLICK, S_x), Attr(S_class, S_c)>>),
    StartTag(S_a, <<Attr(S_href, S_javascript), Attr(S_target, S_self)>>),
    StartTag(S_a, <<Attr(S_href, S_httpsUrl), Attr(S_title, S_x), Attr(S_class, S_c)>>),
    StartTag(S_pre, <<>>),
    EndTag(S_div), EndTag(S_span), EndTag(S_a), EndTag(S_PRE),
    Comment(S_c),
    Text(S_x, S_x),
    Text(<<LF>>, <<LF>>),
    Text(<<CR, LF, SP, LF>>, <<LF, SP, LF>>),
    Text(<<"<", SP>>, <<"<", SP>>),
    Text(<<"&","l","t",";">>, <<"<">>) }

RECURSIVE SeqsUpTo(_, _)
SeqsUpTo(S, n) ==
  IF n = 0 THEN { <<>> }
  ELSE LET shorter == SeqsUpTo(S, n - 1)
       IN shorter \cup { Append(s, k) : s \in shorter, k \in S }

\* the inputs: every token sequence of at most MaxLen tokens
Inputs == SeqsUpTo(Tokens, MaxLen)

(* ------------------------------- DOM ---------------------------------- *)

\* Node ids index the sequence of nodes of a document; 0 is null.
NULL == 0
DOCUMENT == 1
HTML == 2
HEAD == 3
BODY == 4

Node(ty, n, as, d, p, ks) ==
  [type |-> ty, localName |-> n, attrs |-> as, data |-> d, parent |-> p, kids |-> ks]

ElementNode(n, as) == Node("element", n, as, <<>>, NULL, <<>>)
TextNode(d) == Node("text", <<>>, <<>>, d, NULL, <<>>)
CommentNode(d) == Node("comment", <<>>, <<>>, d, NULL, <<>>)

IndexOf(s, x) == IF x \in Range(s) THEN CHOOSE i \in DOMAIN s : s[i] = x ELSE 0

\* parent.removeChild(child); a node without parent is left alone
RemoveChild(nodes, child) ==
  LET p == nodes[child].parent
  IN IF p = NULL THEN nodes
     ELSE [nodes EXCEPT ![p].kids = RemoveAt(@, IndexOf(@, child)),
                        ![child].parent = NULL]

\* parent.appendChild(child): child leaves its old parent first
AppendChild(nodes, p, child) ==
  LET n1 == RemoveChild(nodes, child)
  IN [n1 EXCEPT ![p].kids = Append(@, child), ![child].parent = p]

\* old.parentNode.replaceChild(new, old), new a fresh node
ReplaceChild(nodes, new, old) ==
  LET p == nodes[old].parent
  IN [nodes EXCEPT ![p].kids = ReplaceAt(@, IndexOf(@, old), new),
                   ![new].parent = p,
                   ![old].parent = NULL]

RECURSIVE TextContent(_, _)
\* Node.textContent of an element: the data of its Text descendants in tree order
TextContent(nodes, n) ==
  IF nodes[n].type = "text" THEN nodes[n].data
  ELSE IF nodes[n].type = "comment" THEN <<>>
  ELSE Flatten([i \in DOMAIN nodes[n].kids |-> TextContent(nodes, nodes[n].kids[i])])

\* Element.tagName of an HTML element
TagName(node) == ToUpperCase(node.localName)

HasAttr(as, n) == \E i \in DOMAIN as : as[i].name = n

\* el.removeAttribute(name)
RemoveAttribute(as, n) == SelectSeq(as, LAMBDA a : a.name # n)

\* el.setAttribute(name, value): in place if present, else appended
SetAttribute(as, n, v) ==
  IF HasAttr(as, n)
  THEN ReplaceAt(as, CHOOSE i \in DOMAIN as : as[i].name = n, Attr(n, v))
  ELSE Append(as, Attr(n, v))

(* --------------------- DOMParser.parseFromString ---------------------- *)
(* HTML tree construction for the tokens of Tokens.  The parser state:     *)
(* nodes, the stack of open elements (the current node last), the list of  *)
(* active formatting elements (afe; a is the only formatting tag of        *)
(* TagNames, so the list holds at most one element), whether the body has  *)
(* been reached ("initial", "before html", "before head", "in head" and    *)
(* "after head" treat the tokens of Tokens alike), and whether a line feed *)
(* that comes next is dropped (after <pre>).                               *)

\* the parser's "special" category, of the tags that occur
SpecialTags == {S_html, S_head, S_body, S_div, S_pre}

\* the parser's white space
IsParserSpace(c) == c \in {TAB, LF, "\f", CR, SP}

RECURSIVE DropLeadingSpace(_)
DropLeadingSpace(d) ==
  IF d # <<>> /\ IsParserSpace(Head(d)) THEN DropLeadingSpace(Tail(d)) ELSE d

\* the tokenizer lower-cases attribute names and keeps the first of duplicates
RECURSIVE TokenAttrs(_, _)
TokenAttrs(as, acc) ==
  IF as = <<>> THEN acc
  ELSE LET n == ToLowerCase(Head(as).name)
       IN TokenAttrs(Tail(as),
                     IF HasAttr(acc, n) THEN acc ELSE Append(acc, Attr(n, Head(as).value)))

\* the document of the empty input: Document > html > (head, body)
EmptyDocument ==
  << Node("document", <<>>, <<>>, <<>>, NULL, <<HTML>>),
     Node("element", S_html, <<>>, <<>>, DOCUMENT, <<HEAD, BODY>>),
     Node("element", S_head, <<>>, <<>>, HTML, <<>>),
     Node("element", S_body, <<>>, <<>>, HTML, <<>>) >>

ParserInit ==
  [nodes |-> EmptyDocument, stack |-> <<HTML, BODY>>, afe |-> <<>>,
   inBody |-> FALSE, skipLF |-> FALSE]

CurrentNode(ps) == Last(ps.stack)

\* "insert an HTML element": a new child of the current node, pushed
InsertElement(ps, n, as) ==
  LET id == Len(ps.nodes) + 1
  IN [ps EXCEPT !.nodes = AppendChild(Append(ps.nodes, ElementNode(n, as)), CurrentNode(ps), id),
                !.stack = Append(ps.stack, id)]

\* "insert a comment" in the current node
InsertComment(ps, d) ==
  LET id == Len(ps.nodes) + 1
  IN [ps EXCEPT !.nodes = AppendChild(Append(ps.nodes, CommentNode(d)), CurrentNode(ps), id)]

\* a comment before the html element becomes a child of the Document
InsertDocumentComment(ps, d) ==
  LET id == Len(ps.nodes) + 1
      n1 == Append(ps.nodes, [CommentNode(d) EXCEPT !.parent = DOCUMENT])
      ks == n1[DOCUMENT].kids
  IN [ps EXCEPT !.nodes = [n1 EXCEPT ![DOCUMENT].kids =
                             SubSeq(ks, 1, Len(ks) - 1) \o <<id, HTML>>]]

\* "insert a character": joins the Text node that ends the current node
InsertCharacters(ps, d) ==
  LET cur == CurrentNode(ps)
      ks == ps.nodes[cur].kids
      id == Len(ps.nodes) + 1
  IN IF ks # <<>> /\ ps.nodes[Last(ks)].type = "text"
     THEN [ps EXCEPT !.nodes[Last(ks)].data = @ \o d]
     ELSE [ps EXCEPT !.nodes = AppendChild(Append(ps.nodes, TextNode(d)), cur, id)]

\* "reconstruct the active formatting elements"
Reconstruct(ps) ==
  IF ps.afe = <<>> \/ Last(ps.afe) \in Range(ps.stack) THEN ps
  ELSE LET entry == Last(ps.afe)
           p1 == InsertElement(ps, ps.nodes[entry].localName, ps.nodes[entry].attrs)
       IN [p1 EXCEPT !.afe = SubSeq(ps.afe, 1, Len(ps.afe) - 1) \o <<CurrentNode(p1)>>]

Without(s, x) == SelectSeq(s, LAMBDA y : y # x)

IsSpecial(ps, id) == ps.nodes[id].localName \in SpecialTags

\* the position in the stack of the furthest block of the formatting element
\* at position idx: the first special element after it; 0 if there is none
FurthestBlock(ps, idx) ==
  LET js == { j \in DOMAIN ps.stack : j > idx /\ IsSpecial(ps, ps.stack[j]) }
  IN IF js = {} THEN 0 ELSE CHOOSE j \in js : \A k \in js : j <= k

RECURSIVE SetParents(_, _, _)
\* the nodes of kids get the parent p
SetParents(nodes, kids, p) ==
  IF kids = <<>> THEN nodes
  ELSE SetParents([nodes EXCEPT ![Head(kids)].parent = p], Tail(kids), p)

RECURSIVE AdoptionLoop(_, _)
\* the outer loop of the adoption agency algorithm, for the tag a
AdoptionLoop(ps, counter) ==
  IF counter >= 8 \/ ps.afe = <<>> THEN ps
  ELSE
    LET fe == Last(ps.afe)
        idx == IndexOf(ps.stack, fe)
    IN IF idx = 0 THEN [ps EXCEPT !.afe = Without(@, fe)]
       ELSE
         LET fb == FurthestBlock(ps, idx)
         IN IF fb = 0
            THEN [ps EXCEPT !.stack = SubSeq(@, 1, idx - 1), !.afe = Without(@, fe)]
            ELSE
              LET block == ps.stack[fb]
                  ancestor == ps.stack[idx - 1]
                  \* the furthest block moves under the common ancestor
                  n1 == AppendChild(ps.nodes, ancestor, block)
                  \* a new element for the formatting element's token takes
                  \* the block's children and becomes its only child
                  clone == Len(n1) + 1
                  moved == n1[block].kids
                  n2 == Append(n1, [ElementNode(n1[fe].localName, n1[fe].attrs)
                                      EXCEPT !.kids = moved, !.parent = block])
                  n3 == SetParents([n2 EXCEPT ![block].kids = <<clone>>], moved, clone)
              IN AdoptionLoop(
                   [ps EXCEPT !.nodes = n3,
                              !.afe = ReplaceAt(@, IndexOf(@, fe), clone),
                              !.stack = SubSeq(@, 1, idx - 1) \o <<block, clone>>
                                          \o SubSeq(@, fb + 1, Len(@))],
                   counter + 1)

\* "any other end tag"
AnyOtherEndTag(ps, n) ==
  LET hits == { j \in DOMAIN ps.stack :
                  ps.nodes[ps.stack[j]].localName = n \/ IsSpecial(ps, ps.stack[j]) }
      top == CHOOSE j \in hits : \A k \in hits : k <= j
  IN IF ps.nodes[ps.stack[top]].localName = n
     THEN [ps EXCEPT !.stack = SubSeq(@, 1, top - 1)]
     ELSE ps

\* the adoption agency algorithm, for the tag a
AdoptionAgency(ps) ==
  IF ps.nodes[CurrentNode(ps)].localName = S_a /\ CurrentNode(ps) \notin Range(ps.afe)
  THEN [ps EXCEPT !.stack = SubSeq(@, 1, Len(@) - 1)]
  ELSE IF ps.afe = <<>> THEN AnyOtherEndTag(ps, S_a)
  ELSE AdoptionLoop(ps, 0)

\* an end tag of a special element (div, pre)
SpecialEndTag(ps, n) ==
  LET js == { j \in DOMAIN ps.stack : ps.nodes[ps.stack[j]].localName = n }
  IN IF js = {} THEN ps
     ELSE [ps EXCEPT !.stack = SubSeq(@, 1, (CHOOSE j \in js : \A k \in js : k <= j) - 1)]

\* a start tag "in body"
StartTagInBody(ps, n, as) ==
  IF n = S_a
  THEN LET old == IF ps.afe = <<>> THEN NULL ELSE Last(ps.afe)
           p1 == IF old = NULL THEN ps
                 ELSE LET q == AdoptionAgency(ps)
                      IN [q EXCEPT !.afe = Without(@, old), !.stack = Without(@, old)]
           p2 == InsertElement(Reconstruct(p1), n, as)
       IN [p2 EXCEPT !.afe = Append(@, CurrentNode(p2))]
  ELSE IF n \in SpecialTags
  THEN [InsertElement(ps, n, as) EXCEPT !.skipLF = (n = S_pre)]
  ELSE InsertElement(Reconstruct(ps), n, as)

\* character data "in body"
TextInBody(ps, d) ==
  LET d1 == IF ps.skipLF /\ d # <<>> /\ Head(d) = LF THEN Tail(d) ELSE d
  IN IF d1 = <<>> THEN ps ELSE InsertCharacters(Reconstruct(ps), d1)

\* a token "in body"
InBody(ps, k) ==
  LET p1 == [ps EXCEPT !.skipLF = FALSE]
  IN CASE k.t = "text" -> [TextInBody(ps, k.data) EXCEPT !.skipLF = FALSE]
       [] k.t = "comment" -> InsertComment(p1, k.data)
       [] k.t = "start" -> StartTagInBody(p1, ToLowerCase(k.name), TokenAttrs(k.attrs, <<>>))
       [] OTHER ->
            IF ToLowerCase(k.name) = S_a THEN AdoptionAgency(p1)
            ELSE IF ToLowerCase(k.name) \in SpecialTags
            THEN SpecialEndTag(p1, ToLowerCase(k.name))
            ELSE AnyOtherEndTag(p1, ToLowerCase(k.name))

\* a token before the body: comments go to the Document, white space and end
\* tags are dropped, anything else opens the body and is processed there
BeforeBody(ps, k) ==
  CASE k.t = "comment" -> InsertDocumentComment(ps, k.data)
    [] k.t = "end" -> ps
    [] k.t = "text" ->
         IF DropLeadingSpace(k.data) = <<>> THEN ps
         ELSE InBody([ps EXCEPT !.inBody = TRUE],
                     [k EXCEPT !.data = DropLeadingSpace(k.data)])
    [] OTHER -> InBody([ps EXCEPT !.inBody = TRUE], k)

RECURSIVE ParseTokens(_, _)
ParseTokens(ps, ks) ==
  IF ks = <<>> THEN ps
  ELSE ParseTokens(IF ps.inBody THEN InBody(ps, Head(ks)) ELSE BeforeBody(ps, Head(ks)),
                   Tail(ks))

\* new DOMParser().parseFromString(input, "text/html"): the nodes of the document
ParseFromString(input) == ParseTokens(ParserInit, input).nodes

(* ------------------------- Element.innerHTML -------------------------- *)

\* elements serialized without content and end tag
VoidTags == { <<"b","r">>, <<"h","r">>, <<"i","m","g">> }

RECURSIVE InnerHTML(_, _)
RECURSIVE SerializeNode(_, _)
\* the serialization of the children of node n, as markup
InnerHTML(nodes, n) ==
  Flatten([i \in DOMAIN nodes[n].kids |-> SerializeNode(nodes, nodes[n].kids[i])])

\* the serialization of node id
SerializeNode(nodes, id) ==
  CASE nodes[id].type = "element" ->
         <<StartTag(nodes[id].localName, nodes[id].attrs)>>
           \o (IF nodes[id].localName \in VoidTags THEN <<>>
               ELSE InnerHTML(nodes, id) \o <<EndTag(nodes[id].localName)>>)
    [] nodes[id].type = "comment" -> <<Comment(nodes[id].data)>>
    [] OTHER ->
         IF nodes[id].data = <<>> THEN <<>>
         ELSE <<Text(EscapeText(nodes[id].data), nodes[id].data)>>

(* ---------------------------- sanitizeHtml ---------------------------- *)

ALLOWED_TAGS ==
  { <<"p">>, <<"b","r">>, <<"h","r">>, <<"b","l","o","c","k","q","u","o","t","e">>,
    <<"u","l">>, <<"o","l">>, <<"l","i">>, <<"b">>, <<"s","t","r","o","n","g">>,
    <<"i">>, <<"e","m">>, <<"u">>, <<"c","o","d","e">>, <<"p","r","e">>,
    <<"s","p","a","n">>, <<"a">>,
    <<"h","1">>, <<"h","2">>, <<"h","3">>, <<"h","4">>, <<"h","5">>, <<"h","6">> }

\* the href values kept on an anchor
HrefOk(value) ==
  LET v == Trim(value)
  IN \/ StartsWith(v, S_http)
     \/ StartsWith(v, S_https)
     \/ StartsWith(v, S_mailto)
     \/ StartsWith(v, S_slash)
     \/ StartsWith(v, S_hash)

\* one round of the attribute loop: the attributes of el after attribute a
\* of the snapshot has been dealt with
StripAttr(tag, as, a) ==
  LET name == ToLowerCase(a.name)
      isEvent == StartsWith(name, S_on)
      isStyle == name = S_style
  IN IF isEvent \/ isStyle THEN RemoveAttribute(as, a.name)
     ELSE IF tag = S_a
     THEN IF name = S_href
          THEN IF HrefOk(a.value) THEN as ELSE RemoveAttribute(as, S_href)
          ELSE IF name = S_title THEN as
          ELSE IF name = S_target \/ name = S_rel THEN as
          ELSE RemoveAttribute(as, a.name)
     ELSE IF tag = S_span THEN RemoveAttribute(as, a.name)
     ELSE RemoveAttribute(as, a.name)

RECURSIVE StripAttrs(_, _, _)
\* for (const a of attrs) ..., attrs the snapshot Array.from(el.attributes)
StripAttrs(tag, as, snapshot) ==
  IF snapshot = <<>> THEN as
  ELSE StripAttrs(tag, StripAttr(tag, as, Head(snapshot)), Tail(snapshot))

\* the attributes of an allowed element after the walk has visited it
WalkAttrs(tag, as) ==
  LET kept == StripAttrs(tag, as, as)
  IN IF tag = S_a
     THEN SetAttribute(SetAttribute(kept, S_target, S_blank), S_rel, S_noopener)
     ELSE kept

\* a disallowed element is dropped, its text with it
RemoveElement(nodes, n) == RemoveChild(nodes, n)

\* a disallowed element is replaced by a Text node and loses its children
ReplaceAndEmpty(nodes, n) ==
  LET text == Len(nodes) + 1
      n1 == Append(nodes, TextNode(TextContent(nodes, n)))
      n2 == IF nodes[n].parent = NULL THEN n1 ELSE ReplaceChild(n1, text, n)
  IN [n2 EXCEPT ![n].kids = <<>>]

\* a disallowed element is replaced by a Text node of its text content
ReplaceByText(nodes, n) ==
  LET text == Len(nodes) + 1
      n1 == Append(nodes, TextNode(TextContent(nodes, n)))
  IN IF nodes[n].parent = NULL THEN n1 ELSE ReplaceChild(n1, text, n)

RECURSIVE Walk(_, _)
RECURSIVE WalkChildren(_, _)
\* walk(node), on the nodes of the document and the log of the nodes visited
Walk(w, n) ==
  LET node == w.nodes[n]
      w1 == [w EXCEPT !.visited = Append(@, n)]
  IN IF node.type = "comment"
     THEN [w1 EXCEPT !.nodes = RemoveChild(@, n)]
     ELSE IF node.type = "element"
     THEN LET tag == ToLowerCase(TagName(node))
          IN IF tag \notin ALLOWED_TAGS
             THEN [w1 EXCEPT !.nodes = ReplaceByText(@, n)]
             ELSE WalkChildren([w1 EXCEPT !.nodes[n].attrs = WalkAttrs(tag, @)], node.kids)
     ELSE WalkChildren(w1, node.kids)

RECURSIVE WalkLiveFrom(_, _, _)
\* for (let i = 0; i < node.childNodes.length; i++) walk(node.childNodes[i])
WalkLiveFrom(w, p, i) ==
  IF i > Len(w.nodes[p].kids) THEN w
  ELSE WalkLiveFrom(Walk(w, w.nodes[p].kids[i]), p, i + 1)

\* a loop over the live child list of the node
WalkLive(w, children) ==
  IF children = <<>> THEN w ELSE WalkLiveFrom(w, w.nodes[Head(children)].parent, 1)

\* for (const c of children) walk(c), children the snapshot of node.childNodes
WalkChildren(w, children) ==
  IF children = <<>> THEN w ELSE WalkChildren(Walk(w, Head(children)), Tail(children))

\* a catch block that falls back to the input
CatchReturnsInput(input) == input

\* what the catch block returns
CatchResult(input) == <<>>

\* doc.body: the body element child of the html element, or null
DocBody(nodes) ==
  LET bs == { i \in DOMAIN nodes[HTML].kids :
                /\ nodes[nodes[HTML].kids[i]].type = "element"
                /\ nodes[nodes[HTML].kids[i]].localName = S_body }
  IN IF bs = {} THEN NULL ELSE nodes[HTML].kids[CHOOSE i \in bs : \A j \in bs : i <= j]

\* a return that reads doc.body again after the walk, "" when there is none
ReturnOfDocBody(nodes) ==
  IF DocBody(nodes) = NULL THEN <<>> ELSE InnerHTML(nodes, DocBody(nodes))

\* return body.innerHTML || "", body the element captured before the walk
ReturnValue(nodes) == InnerHTML(nodes, BODY)

\* sanitizeHtml(input) when nothing throws
sanitizeHtml(input) ==
  ReturnValue(Walk([nodes |-> ParseFromString(input), visited |-> <<>>], BODY).nodes)

(* ---------------------------- looksLikeHtml --------------------------- *)

\* the pattern without its optional slash: /<[a-z][\s\S]*>/i.test(s)
looksLikeStartTag(s) ==
  \E i \in DOMAIN s :
    /\ s[i] = "<"
    /\ i + 1 \in DOMAIN s
    /\ IsLetter(s[i + 1])
    /\ \E k \in DOMAIN s : k > i + 1 /\ s[k] = ">"

\* /<\/?[a-z][\s\S]*>/i.test(s)
looksLikeHtml(s) ==
  \E i \in DOMAIN s :
    /\ s[i] = "<"
    /\ \E j \in {i + 1, i + 2} :
         /\ j \in DOMAIN s
         /\ j = i + 2 => s[i + 1] = "/"
         /\ IsLetter(s[j])
         /\ \E k \in DOMAIN s : k > j /\ s[k] = ">"

(* ------------------------------ RichText ------------------------------ *)

RECURSIVE SplitOnLF(_, _)
\* content.split("\n"): a carriage return stays in its line
SplitOnLF(s, cur) ==
  IF s = <<>> THEN <<cur>>
  ELSE IF Head(s) = LF THEN <<cur>> \o SplitOnLF(Tail(s), <<>>)
  ELSE SplitOnLF(Tail(s), Append(cur, Head(s)))

RECURSIVE SplitLines(_, _)
\* content.split(/\r?\n/): cur is the line being read
SplitLines(s, cur) ==
  IF s = <<>> THEN <<cur>>
  ELSE IF Head(s) = LF THEN <<cur>> \o SplitLines(Tail(s), <<>>)
  ELSE IF Head(s) = CR /\ Len(s) >= 2 /\ s[2] = LF
  THEN <<cur>> \o SplitLines(Tail(Tail(s)), <<>>)
  ELSE SplitLines(Tail(s), Append(cur, Head(s)))

\* content.split(/\r?\n/).filter((l) => l.trim().length > 0)
NonBlankLines(s) == SelectSeq(SplitLines(s, <<>>), LAMBDA l : Len(Trim(l)) > 0)

\* what RichText returns: the div's mode and payload
Rendered(m, h, x, ls) == [mode |-> m, html |-> h, text |-> x, lines |-> ls]

NoRender == Rendered("none", <<>>, <<>>, <<>>)

\* <div dangerouslySetInnerHTML={{ __html: safe }} />
HtmlRender(safe) == Rendered("html", safe, <<>>, <<>>)

\* a fallback that wraps a single line in a paragraph too
PlainRenderWrapped(content) ==
  LET lines == NonBlankLines(content)
  IN IF Len(lines) < 1 THEN Rendered("text", <<>>, content, <<>>)
     ELSE Rendered("paragraphs", <<>>, <<>>, lines)

\* the plain text fallback
PlainRender(content) ==
  LET lines == NonBlankLines(content)
  IN IF Len(lines) <= 1 THEN Rendered("text", <<>>, content, <<>>)
     ELSE Rendered("paragraphs", <<>>, <<>>, lines)

\* the children prop: null/undefined or a string
NullProp == [null |-> TRUE, s |-> <<>>]
StringProp(s) == [null |-> FALSE, s |-> s]

\* (children ?? "").toString()
ContentOf(prop) == IF prop.null THEN <<>> ELSE prop.s

\* a test that sends every content to the plain text branch
RouteAllPlain(s) == "plain"

\* if (looksLikeHtml(content)) ... : the branch RichText takes
Route(s) == IF looksLikeHtml(s) THEN "parse" ELSE "plain"

(* --------------------------- state machine ---------------------------- *)

VARIABLES
  children,  \* the prop RichText is called with
  pc,        \* where the call is
  content,   \* const content
  doc,       \* the nodes of the parsed document
  visited,   \* the nodes walk was called on, in order
  safe,      \* the value sanitizeHtml returned
  threw,     \* whether sanitizeHtml's try block threw
  rendered,  \* what RichText returned
  calls,     \* the sanitizeHtml calls of a transcript: one record per message
  docs,      \* the Documents these calls parsed, by the call that made them
  mounted,   \* ArticleJsonPage: whether the page is mounted
  articleId, \* ArticleJsonPage: the article id of the route
  page,      \* ArticleJsonPage: its useState values
  loads,     \* the article requests in flight
  fetches,   \* the longform requests in flight
  effects,   \* the dependencies each effect last ran with
  retryTimer, \* whether the timer Retry sets is pending
  initialArticle, \* Chatbot: the prop initialArticle
  chat,      \* Chatbot: its useState values
  queries,   \* Chatbot: the backend queries in flight, oldest first
  chatEffects, \* Chatbot: the dependencies its effects last ran with
  cleared    \* Chatbot: the articles onClearArticle was called for, in order

richVars == <<children, pc, content, doc, visited, safe, threw, rendered>>

callVars == <<calls, docs>>

pageVars == <<mounted, articleId, page, loads, fetches, effects, retryTimer>>

chatVars == <<initialArticle, chat, queries, chatEffects, cleared>>

vars == <<richVars, callVars, pageVars, chatVars>>

\* a sanitizeHtml call: where it is, its argument, what it returned
Call(p, in, out, th) == [pc |-> p, input |-> in, safe |-> out, threw |-> th]

\* the messages of a transcript, each rendered by its own RichText
CallIds == {1, 2}

NoCalls ==
  /\ calls = <<Call("idle", <<>>, <<>>, FALSE), Call("idle", <<>>, <<>>, FALSE)>>
  /\ docs = <<(<<>>), (<<>>)>>

\* the useState values of ArticleJsonPage at its first render; null and ""
\* are NULL, an error message is kept as whether there is one
FirstRender ==
  [data |-> NULL, loading |-> TRUE, error |-> FALSE, activeTab |-> "summary",
   longform |-> NULL, longformLoading |-> FALSE, longformError |-> FALSE,
   longformForId |-> NULL]

\* no effect has run yet
NotRun == [load |-> <<>>, reset |-> <<>>, fetch |-> <<>>]

\* no ArticleJsonPage is mounted
NoPage ==
  /\ mounted = FALSE
  /\ articleId = NULL
  /\ page = FirstRender
  /\ loads = {}
  /\ fetches = {}
  /\ effects = NotRun
  /\ retryTimer = FALSE

\* the useState values of Chatbot at its first render
FirstChat == [isOpen |-> FALSE, messages |-> <<>>, input |-> <<>>, isLoading |-> FALSE]

\* no Chatbot is mounted
NoChat ==
  /\ initialArticle = NULL
  /\ chat = FirstChat
  /\ queries = <<>>
  /\ chatEffects = [context |-> <<>>, open |-> <<>>]
  /\ cleared = <<>>

\* no RichText is rendering
NoRichText ==
  /\ children = NullProp
  /\ pc = "render"
  /\ content = <<>>
  /\ doc = <<>>
  /\ visited = <<>>
  /\ safe = <<>>
  /\ threw = FALSE
  /\ rendered = NoRender

Init ==
  /\ children \in {NullProp} \cup { StringProp(s) : s \in Inputs }
  /\ pc = "render"
  /\ content = <<>>
  /\ doc = <<>>
  /\ visited = <<>>
  /\ safe = <<>>
  /\ threw = FALSE
  /\ rendered = NoRender
  /\ NoCalls
  /\ NoPage
  /\ NoChat

\* RichText, up to the test of looksLikeHtml
RichTextCall ==
  /\ pc = "render"
  /\ content' = ContentOf(children)
  /\ pc' = Route(Chars(ContentOf(children)))
  /\ UNCHANGED <<children, doc, visited, safe, threw, rendered>>
  /\ UNCHANGED <<callVars, pageVars, chatVars>>

\* sanitizeHtml: parser.parseFromString(input, "text/html")
SanitizeParse ==
  /\ pc = "parse"
  /\ doc' = ParseFromString(content)
  /\ pc' = "walk"
  /\ UNCHANGED <<children, content, visited, safe, threw, rendered>>
  /\ UNCHANGED <<callVars, pageVars, chatVars>>

\* sanitizeHtml: walk(body)
SanitizeWalk ==
  /\ pc = "walk"
  /\ LET w == Walk([nodes |-> doc, visited |-> <<>>], BODY)
     IN doc' = w.nodes /\ visited' = w.visited
  /\ pc' = "serialize"
  /\ UNCHANGED <<children, content, safe, threw, rendered>>
  /\ UNCHANGED <<callVars, pageVars, chatVars>>

\* sanitizeHtml: return body.innerHTML || ""
SanitizeReturn ==
  /\ pc = "serialize"
  /\ safe' = ReturnValue(doc)
  /\ pc' = "inject"
  /\ UNCHANGED <<children, content, doc, visited, threw, rendered>>
  /\ UNCHANGED <<callVars, pageVars, chatVars>>

\* sanitizeHtml: the step about to run throws and the catch block returns
SanitizeCatch ==
  /\ pc \in {"parse", "walk", "serialize"}
  /\ safe' = CatchResult(content)
  /\ threw' = TRUE
  /\ pc' = "inject"
  /\ UNCHANGED <<children, content, doc, visited, rendered>>
  /\ UNCHANGED <<callVars, pageVars, chatVars>>

\* RichText: the markup branch returns
RenderHtml ==
  /\ pc = "inject"
  /\ rendered' = HtmlRender(safe)
  /\ pc' = "done"
  /\ UNCHANGED <<children, content, doc, visited, safe, threw>>
  /\ UNCHANGED <<callVars, pageVars, chatVars>>

\* RichText: the plain text branch returns
RenderPlain ==
  /\ pc = "plain"
  /\ rendered' = PlainRender(Chars(content))
  /\ pc' = "done"
  /\ UNCHANGED <<children, content, doc, visited, safe, threw>>
  /\ UNCHANGED <<callVars, pageVars, chatVars>>

Next ==
  \/ RichTextCall
  \/ SanitizeParse
  \/ SanitizeWalk
  \/ SanitizeReturn
  \/ SanitizeCatch
  \/ RenderHtml
  \/ RenderPlain

Spec == Init /\ [][Next]_vars

(* ------------------- the sanitizeHtml calls of a transcript ------------ *)

\* the strings the messages hold: one token each, or nothing
CallInputs == { <<>> } \cup { <<k>> : k \in Tokens }

\* a call that works on the one Document of the first call
FirstDocument(i) == 1

\* const doc = parser.parseFromString(...): the Document call i works on is
\* the one it made itself
OwnDocument(i) == i

SetCall(i, c) == IF i = 1 THEN <<c, calls[2]>> ELSE <<calls[1], c>>

SetDoc(i, d) == IF i = 1 THEN <<d, docs[2]>> ELSE <<docs[1], d>>

InitCalls ==
  /\ NoRichText
  /\ NoCalls
  /\ NoPage
  /\ NoChat

\* a RichText of the transcript calls sanitizeHtml(content)
CallStart(i) ==
  /\ calls[i].pc = "idle"
  /\ \E in \in CallInputs : calls' = SetCall(i, Call("parse", in, <<>>, FALSE))
  /\ UNCHANGED <<docs, richVars, pageVars, chatVars>>

\* parser.parseFromString(input, "text/html")
CallParse(i) ==
  /\ calls[i].pc = "parse"
  /\ docs' = SetDoc(OwnDocument(i), ParseFromString(calls[i].input))
  /\ calls' = SetCall(i, [calls[i] EXCEPT !.pc = "walk"])
  /\ UNCHANGED <<richVars, pageVars, chatVars>>

\* walk(body)
CallWalk(i) ==
  /\ calls[i].pc = "walk"
  /\ docs' = SetDoc(OwnDocument(i),
                    Walk([nodes |-> docs[OwnDocument(i)], visited |-> <<>>], BODY).nodes)
  /\ calls' = SetCall(i, [calls[i] EXCEPT !.pc = "serialize"])
  /\ UNCHANGED <<richVars, pageVars, chatVars>>

\* return body.innerHTML || ""
CallReturn(i) ==
  /\ calls[i].pc = "serialize"
  /\ calls' = SetCall(i, [calls[i] EXCEPT !.pc = "done",
                                          !.safe = ReturnValue(docs[OwnDocument(i)])])
  /\ UNCHANGED <<docs, richVars, pageVars, chatVars>>

\* the step about to run throws and the catch block returns
CallCatch(i) ==
  /\ calls[i].pc \in {"parse", "walk", "serialize"}
  /\ calls' = SetCall(i, [calls[i] EXCEPT !.pc = "done",
                                          !.safe = CatchResult(calls[i].input),
                                          !.threw = TRUE])
  /\ UNCHANGED <<docs, richVars, pageVars, chatVars>>

NextCalls ==
  \E i \in CallIds :
    \/ CallStart(i)
    \/ CallParse(i)
    \/ CallWalk(i)
    \/ CallReturn(i)
    \/ CallCatch(i)

SpecCalls == InitCalls /\ [][NextCalls]_vars

(* --------------------- walk, called on any node ------------------------ *)

\* walk(node) on a node of the parsed body
WalkNode ==
  /\ pc = "walk"
  /\ \E n \in { m \in DOMAIN doc : m >= BODY /\ (m = BODY \/ doc[m].parent # NULL) } :
       LET w == Walk([nodes |-> doc, visited |-> <<>>], n)
       IN doc' = w.nodes /\ visited' = w.visited
  /\ pc' = "walked"
  /\ UNCHANGED <<children, content, safe, threw, rendered>>
  /\ UNCHANGED <<callVars, pageVars, chatVars>>

NextWalk ==
  \/ RichTextCall
  \/ SanitizeParse
  \/ WalkNode

SpecWalk == Init /\ [][NextWalk]_vars

(* --------------------------- ArticleJsonPage --------------------------- *)

\* the article ids of the routes visited
ArticleIds == {1, 2}

\* the tabs of the AI Insights card
Tabs == {"summary", "keywords", "future", "chat"}

\* the dependency arrays of the three effects, as the current render has
\* them; headline and aiSummary are computed from data
LoadDeps == <<articleId>>
ResetDeps == <<articleId>>
FetchDeps ==
  <<page.activeTab, page.data, articleId, page.longform, page.longformForId>>

\* a render of the mounted page is due whose dependencies make some effect run
Dirty ==
  /\ mounted
  /\ \/ effects.load # LoadDeps
     \/ effects.reset # ResetDeps
     \/ effects.fetch # FetchDeps

\* an aborted longform request whose catch and finally have not run yet
AbortPending == \E f \in fetches : f.aborted

\* the page has rendered its state, its effects have run and no rejection of
\* an aborted request is waiting: the next thing to happen is an event
Settled == ~Dirty /\ ~AbortPending

\* the page shows the article and the card, not "Loading article" or the error
ArticleShown == ~page.loading /\ ~page.error

\* fetchLongform without the test for an analysis it already has
Refetches(cur) ==
  /\ cur.activeTab = "future"
  /\ cur.data # NULL
  /\ ~cur.longformLoading

\* fetchLongform gets past its four early returns; cur is the state of the
\* render the effect belongs to
StartsFetch(cur) ==
  /\ cur.activeTab = "future"
  /\ cur.data # NULL
  /\ ~cur.longformLoading
  /\ ~(cur.longform # NULL /\ cur.longformForId = articleId)

\* a cleanup that leaves the flags of the runs before as they are
NoCancel(rs) == rs

\* cancelled = true in the cleanup of the load effect
Cancel(rs) == { [r EXCEPT !.cancelled = TRUE] : r \in rs }

\* a cleanup that leaves the requests of the runs before in flight
NoAbort(fs) == fs

\* controller.abort() in the cleanup of the longform effect
Abort(fs) == { [f EXCEPT !.aborted = TRUE] : f \in fs }

InitPage ==
  /\ NoRichText
  /\ NoCalls
  /\ mounted = TRUE
  /\ articleId \in ArticleIds
  /\ page = FirstRender
  /\ loads = {}
  /\ fetches = {}
  /\ effects = NotRun
  /\ retryTimer = FALSE
  /\ NoChat

\* React commits a render and runs the effects whose dependencies changed:
\* their cleanups, then load, reset, fetchLongform in this order, each
\* reading the state of that render
Commit ==
  /\ Dirty
  /\ LET cur == page
         runLoad == effects.load # LoadDeps
         runReset == effects.reset # ResetDeps
         runFetch == effects.fetch # FetchDeps
         starts == runFetch /\ StartsFetch(cur)
         p1 == IF runLoad THEN [cur EXCEPT !.loading = TRUE, !.error = FALSE] ELSE cur
         p2 == IF runReset
               THEN [p1 EXCEPT !.longform = NULL, !.longformError = FALSE,
                               !.longformLoading = FALSE, !.longformForId = articleId]
               ELSE p1
         p3 == IF starts
               THEN [p2 EXCEPT !.longformLoading = TRUE, !.longformError = FALSE]
               ELSE p2
     IN /\ page' = p3
        /\ loads' = IF runLoad
                    THEN Cancel(loads) \cup {[id |-> articleId, cancelled |-> FALSE]}
                    ELSE loads
        /\ fetches' = IF ~runFetch THEN fetches
                      ELSE Abort(fetches) \cup
                           (IF starts
                            THEN {[of |-> cur.data, forId |-> articleId, aborted |-> FALSE]}
                            ELSE {})
        /\ effects' = [load |-> LoadDeps, reset |-> ResetDeps, fetch |-> FetchDeps]
  /\ UNCHANGED <<mounted, articleId, retryTimer, richVars, callVars, chatVars>>

\* the route changes to another article while the page stays mounted
Navigate(id) ==
  /\ mounted
  /\ Settled
  /\ id # articleId
  /\ articleId' = id
  /\ UNCHANGED <<mounted, page, loads, fetches, effects, retryTimer, richVars, callVars, chatVars>>

\* onClick={() => setActiveTab(tab.id)}
SelectTab(t) ==
  /\ mounted
  /\ Settled
  /\ ArticleShown
  /\ t # page.activeTab
  /\ page' = [page EXCEPT !.activeTab = t]
  /\ UNCHANGED <<mounted, articleId, loads, fetches, effects, retryTimer, richVars, callVars, chatVars>>

\* the Retry button's onClick
RetryClick ==
  /\ mounted
  /\ Settled
  /\ ArticleShown
  /\ page.activeTab = "future"
  /\ ~page.longformLoading
  /\ page.longformError
  /\ page' = [page EXCEPT !.longform = NULL, !.longformError = FALSE,
                          !.longformLoading = FALSE, !.activeTab = "summary"]
  /\ retryTimer' = TRUE
  /\ UNCHANGED <<mounted, articleId, loads, fetches, effects, richVars, callVars, chatVars>>

\* setTimeout(() => setActiveTab("future"), 0)
RetryTimeout ==
  /\ Settled
  /\ retryTimer
  /\ page' = [page EXCEPT !.activeTab = "future"]
  /\ retryTimer' = FALSE
  /\ UNCHANGED <<mounted, articleId, loads, fetches, effects, richVars, callVars, chatVars>>

\* the page is unmounted: the cleanups of the load effect and of the longform
\* effect run
Unmount ==
  /\ mounted
  /\ Settled
  /\ mounted' = FALSE
  /\ loads' = Cancel(loads)
  /\ fetches' = Abort(fetches)
  /\ UNCHANGED <<articleId, page, effects, retryTimer, richVars, callVars, chatVars>>

\* load: the article request answers with the article's JSON
LoadResolve(r) ==
  /\ Settled
  /\ loads' = loads \ {r}
  /\ page' = IF r.cancelled THEN page
             ELSE [page EXCEPT !.data = r.id, !.loading = FALSE]
  /\ UNCHANGED <<mounted, articleId, fetches, effects, retryTimer, richVars, callVars, chatVars>>

\* load: the article request fails, or answers with an error status
LoadReject(r) ==
  /\ Settled
  /\ loads' = loads \ {r}
  /\ page' = IF r.cancelled THEN page
             ELSE [page EXCEPT !.error = TRUE, !.loading = FALSE]
  /\ UNCHANGED <<mounted, articleId, fetches, effects, retryTimer, richVars, callVars, chatVars>>

\* fetchLongform: the request answers with the analysis
FetchResolve(f) ==
  /\ Settled
  /\ ~f.aborted
  /\ fetches' = fetches \ {f}
  /\ page' = [page EXCEPT !.longform = f.of, !.longformForId = f.forId,
                          !.longformLoading = FALSE]
  /\ UNCHANGED <<mounted, articleId, loads, effects, retryTimer, richVars, callVars, chatVars>>

\* fetchLongform: the request fails, or answers with an error status
FetchReject(f) ==
  /\ Settled
  /\ ~f.aborted
  /\ fetches' = fetches \ {f}
  /\ page' = [page EXCEPT !.longformError = TRUE, !.longformLoading = FALSE]
  /\ UNCHANGED <<mounted, articleId, loads, effects, retryTimer, richVars, callVars, chatVars>>

\* fetchLongform: the aborted request rejects with AbortError; catch returns
\* and finally runs
AbortSettle(f) ==
  /\ f.aborted
  /\ fetches' = fetches \ {f}
  /\ page' = [page EXCEPT !.longformLoading = FALSE]
  /\ UNCHANGED <<mounted, articleId, loads, effects, retryTimer, richVars, callVars, chatVars>>

NextPage ==
  \/ Commit
  \/ \E id \in ArticleIds : Navigate(id)
  \/ \E t \in Tabs : SelectTab(t)
  \/ RetryClick
  \/ RetryTimeout
  \/ Unmount
  \/ \E r \in loads : LoadResolve(r)
  \/ \E r \in loads : LoadReject(r)
  \/ \E f \in fetches : FetchResolve(f)
  \/ \E f \in fetches : FetchReject(f)
  \/ \E f \in fetches : AbortSettle(f)

SpecPage == InitPage /\ [][NextPage]_vars

(* ------------------------------- Chatbot ------------------------------- *)

\* the articles the parent hands to the Chatbot, and article.title
Articles == {1, 2}

Title(article) == IF article = 1 THEN <<"A">> ELSE <<"B">>

\* what the user types into the input
Texts == { <<SP>>, <<"h", "i">>, <<SP, "h", "i", SP>> }

\* the chat is left alone once it has this many messages
MaxMessages == 4

\* the parent hands no further article after this many onClearArticle calls
MaxClears == 2

S_TELL ==
  <<"T","e","l","l",SP,"m","e",SP,"a","b","o","u","t",SP,"t","h","i","s",SP,
    "a","r","t","i","c","l","e",":",SP>>

\* a Message; kind says which of content and apiResponse with userQuery it has
UserMessage(text) == [role |-> "user", kind |-> "content", text |-> text]

ResponseMessage(userQuery) ==
  [role |-> "assistant", kind |-> "apiResponse", text |-> userQuery]

ErrorMessage == [role |-> "assistant", kind |-> "content", text |-> <<>>]

\* the dependency arrays of the two effects of the props
ContextDeps == <<initialArticle, chat.isOpen>>
OpenDeps == <<initialArticle>>

\* a render is due whose dependencies make an effect run
ChatDirty ==
  \/ chatEffects.context # ContextDeps
  \/ chatEffects.open # OpenDeps

\* the chat and the queries in flight, as sendUserMessage and the handlers
\* leave them
ChatState(c, qs) == [chat |-> c, queries |-> qs]

\* sendUserMessage that does not look at isLoading
sendAlways(c, qs, isLoading, userText) ==
  LET trimmed == Trim(userText)
  IN IF trimmed = <<>> THEN ChatState(c, qs)
     ELSE ChatState([c EXCEPT !.messages = Append(@, UserMessage(trimmed)),
                              !.isLoading = TRUE],
                    Append(qs, trimmed))

\* sendUserMessage, up to its await; isLoading is the value of the render
\* the function belongs to
sendUserMessage(c, qs, isLoading, userText) ==
  LET trimmed == Trim(userText)
  IN IF trimmed = <<>> \/ isLoading THEN ChatState(c, qs)
     ELSE ChatState([c EXCEPT !.messages = Append(@, UserMessage(trimmed)),
                              !.isLoading = TRUE],
                    Append(qs, trimmed))

\* const q in handleArticleContext
Question(article) == S_TELL \o <<QUOT>> \o Title(article) \o <<QUOT>>

handleArticleContext(c, qs, isLoading, article) ==
  sendUserMessage(c, qs, isLoading, Question(article))

InitChat ==
  /\ NoRichText
  /\ NoCalls
  /\ NoPage
  /\ initialArticle \in Articles \cup {NULL}
  /\ chat = FirstChat
  /\ queries = <<>>
  /\ chatEffects = [context |-> <<>>, open |-> <<>>]
  /\ cleared = <<>>

\* React commits a render and runs the effects whose dependencies changed,
\* the one of [initialArticle, isOpen] before the one of [initialArticle],
\* each reading the state of that render
ChatCommit ==
  /\ ChatDirty
  /\ LET cur == chat
         runContext == chatEffects.context # ContextDeps
         runOpen == chatEffects.open # OpenDeps
         asks == runContext /\ initialArticle # NULL /\ cur.isOpen
         s1 == IF asks
               THEN handleArticleContext(cur, queries, cur.isLoading, initialArticle)
               ELSE ChatState(cur, queries)
         c2 == IF runOpen /\ initialArticle # NULL
               THEN [s1.chat EXCEPT !.isOpen = TRUE]
               ELSE s1.chat
     IN /\ chat' = c2
        /\ queries' = s1.queries
        /\ cleared' = IF asks THEN Append(cleared, initialArticle) ELSE cleared
        /\ chatEffects' = [context |-> ContextDeps, open |-> OpenDeps]
  /\ UNCHANGED <<initialArticle, richVars, callVars, pageVars>>

\* the parent renders the Chatbot with another initialArticle, or with none
Supply(a) ==
  /\ ~ChatDirty
  /\ a # initialArticle
  /\ Len(chat.messages) < MaxMessages
  /\ Len(cleared) < MaxClears
  /\ initialArticle' = a
  /\ UNCHANGED <<chat, queries, chatEffects, cleared, richVars, callVars, pageVars>>

\* onClick={() => setIsOpen(!isOpen)}, and the header's setIsOpen(false)
ToggleOpen ==
  /\ ~ChatDirty
  /\ Len(chat.messages) < MaxMessages
  /\ Len(cleared) < MaxClears
  /\ chat' = [chat EXCEPT !.isOpen = ~@]
  /\ UNCHANGED <<initialArticle, queries, chatEffects, cleared, richVars, callVars, pageVars>>

\* onChange={(e) => setInput(e.target.value)} of the input, which the open
\* window has and which is disabled while isLoading
Type(t) ==
  /\ ~ChatDirty
  /\ chat.isOpen
  /\ ~chat.isLoading
  /\ t # chat.input
  /\ chat' = [chat EXCEPT !.input = t]
  /\ UNCHANGED <<initialArticle, queries, chatEffects, cleared, richVars, callVars, pageVars>>

\* handleSubmit, up to the await in sendUserMessage
handleSubmit(c, qs) ==
  IF Trim(c.input) = <<>> \/ c.isLoading THEN ChatState(c, qs)
  ELSE sendUserMessage([c EXCEPT !.input = <<>>], qs, c.isLoading, c.input)

\* the form of the open window is submitted
Submit ==
  /\ ~ChatDirty
  /\ chat.isOpen
  /\ Len(chat.messages) < MaxMessages
  /\ LET s1 == handleSubmit(chat, queries)
     IN /\ chat' = s1.chat
        /\ queries' = s1.queries
  /\ UNCHANGED <<initialArticle, chatEffects, cleared, richVars, callVars, pageVars>>

\* sendUserMessage after its await: callBackend answered query i
QueryResolve(i) ==
  /\ ~ChatDirty
  /\ chat' = [chat EXCEPT !.messages = Append(@, ResponseMessage(queries[i])),
                          !.isLoading = FALSE]
  /\ queries' = RemoveAt(queries, i)
  /\ UNCHANGED <<initialArticle, chatEffects, cleared, richVars, callVars, pageVars>>

\* sendUserMessage after its await: callBackend threw for query i
QueryReject(i) ==
  /\ ~ChatDirty
  /\ chat' = [chat EXCEPT !.messages = Append(@, ErrorMessage),
                          !.isLoading = FALSE]
  /\ queries' = RemoveAt(queries, i)
  /\ UNCHANGED <<initialArticle, chatEffects, cleared, richVars, callVars, pageVars>>

NextChat ==
  \/ ChatCommit
  \/ \E a \in Articles \cup {NULL} : Supply(a)
  \/ ToggleOpen
  \/ \E t \in Texts \cup {<<>>} : Type(t)
  \/ Submit
  \/ \E i \in DOMAIN queries : QueryResolve(i)
  \/ \E i \in DOMAIN queries : QueryReject(i)

SpecChat == InitChat /\ [][NextChat]_vars

(* ------------------------------ claims -------------------------------- *)

\* sanitizeHtml has returned normally and RichText has injected its value
Sanitized == pc = "done" /\ rendered.mode = "html" /\ ~threw

\* the start tags of a markup string: the elements it makes
StartTags(ks) == { i \in DOMAIN ks : ks[i].t = "start" }

AttrNames(k) == { k.attrs[i].name : i \in DOMAIN k.attrs }

AttrValue(k, n) == k.attrs[CHOOSE i \in DOMAIN k.attrs : k.attrs[i].name = n].value

RECURSIVE TextOf(_)
\* the character data of a markup string, character references decoded
TextOf(ks) ==
  IF ks = <<>> THEN <<>>
  ELSE (IF Head(ks).t = "text" THEN Head(ks).data ELSE <<>>) \o TextOf(Tail(ks))

\* C1: the markup sanitizeHtml returns has no element whose tag is outside
\* ALLOWED_TAGS.
C1_OnlyAllowedTags ==
  Sanitized => \A i \in StartTags(safe) : safe[i].name \in ALLOWED_TAGS

\* C2: no element of the markup sanitizeHtml returns has an attribute whose
\* name starts with "on" (in any case) or is "style".
C2_NoEventOrStyle ==
  Sanitized =>
    \A i \in StartTags(safe) : \A n \in AttrNames(safe[i]) :
      ~StartsWith(ToLowerCase(n), S_on) /\ ToLowerCase(n) # S_style

\* C3: the href of an anchor of the markup sanitizeHtml returns starts (white
\* space around it aside) with http://, https://, mailto:, / or #.
C3_SafeHref ==
  Sanitized =>
    \A i \in StartTags(safe) :
      (safe[i].name = S_a /\ S_href \in AttrNames(safe[i]))
        => HrefOk(AttrValue(safe[i], S_href))

\* C4: every anchor of the markup sanitizeHtml returns has target "_blank"
\* and rel "noopener noreferrer".
C4_TargetAndRel ==
  Sanitized =>
    \A i \in StartTags(safe) :
      safe[i].name = S_a =>
        /\ {S_target, S_rel} \subseteq AttrNames(safe[i])
        /\ AttrValue(safe[i], S_target) = S_blank
        /\ AttrValue(safe[i], S_rel) = S_noopener

\* C5: every element of the markup sanitizeHtml returns that is not an anchor
\* has no attribute.
C5_NoAttributes ==
  Sanitized =>
    \A i \in StartTags(safe) : safe[i].name # S_a => safe[i].attrs = <<>>

\* C6: the markup sanitizeHtml returns has no comment.
C6_NoComment ==
  Sanitized => \A i \in DOMAIN safe : safe[i].t # "comment"

\* C7: when a step of sanitizeHtml throws, the call still returns to RichText,
\* and what it returns is the empty string, whatever the input was.
C7_FailClosed ==
  threw => pc \in {"inject", "done"} /\ Chars(safe) = <<>>

C7_Witness ==
  threw /\ pc = "done" /\ Chars(content) # <<>> /\ rendered.html = <<>>

\* C8: sanitizing the string sanitizeHtml returned gives that string again.
C8_Idempotent ==
  Sanitized => Chars(sanitizeHtml(safe)) = Chars(safe)

C10_Routing ==
  pc = "done" =>
    /\ content = (IF children.null THEN <<>> ELSE children.s)
    /\ IF looksLikeHtml(Chars(content))
       THEN /\ rendered.mode = "html"
            /\ rendered.html = safe
            /\ threw \/ safe = sanitizeHtml(content)
       ELSE /\ rendered.mode \in {"text", "paragraphs"}
            /\ rendered.html = <<>>
            /\ rendered.mode = "text" => rendered.text = Chars(content)
            /\ doc = <<>> /\ visited = <<>> /\ ~threw

C10_Witness ==
  /\ pc = "done"
  /\ rendered.mode = "html"
  /\ ~threw
  /\ rendered.html # <<>>
  /\ Chars(rendered.html) # Chars(content)

\* RichText took the markup branch: looksLikeHtml(content) was true
MarkupBranch ==
  \/ pc \in {"parse", "walk", "serialize", "inject"}
  \/ pc = "done" /\ rendered.mode = "html"

\* s has "<", then a letter or "/" and a letter, at i, and ">" somewhere after
TagOpenAt(s, i) ==
  /\ s[i] = "<"
  /\ \/ /\ i + 1 \in DOMAIN s
        /\ IsLetter(s[i + 1])
        /\ ">" \in Range(SubSeq(s, i + 2, Len(s)))
     \/ /\ i + 2 \in DOMAIN s
        /\ s[i + 1] = "/"
        /\ IsLetter(s[i + 2])
        /\ ">" \in Range(SubSeq(s, i + 3, Len(s)))

\* C11: looksLikeHtml is true of exactly the strings that have a "<", then
\* optionally "/", then an ASCII letter of either case, and a ">" anywhere
\* after it; it is false of the empty string and of a string with no ">"
\* after its "<"; two calls on the same string take the same branch.
C11_LooksLikeMarkup ==
  pc # "render" =>
    LET s == Chars(content)
    IN /\ MarkupBranch <=> \E i \in DOMAIN s : TagOpenAt(s, i)
       /\ s = <<>> => ~MarkupBranch
       /\ (\A i, k \in DOMAIN s : s[i] = "<" /\ s[k] = ">" => k < i) => ~MarkupBranch

C11_Witness ==
  /\ pc = "done"
  /\ rendered.mode = "html"
  /\ SubSeq(Chars(content), 1, 3) = <<"<", "/", "P">>
  /\ LF \in Range(Chars(content))

\* RichText took the plain text branch and has returned
PlainDone == pc = "done" /\ ~MarkupBranch

\* the positions of the line feeds of s, and the k-th of them
LineFeeds(s) == { i \in DOMAIN s : s[i] = LF }

NthLineFeed(s, k) ==
  CHOOSE i \in LineFeeds(s) : Cardinality({ j \in LineFeeds(s) : j <= i }) = k

\* the k-th line of s: what lies between two line feeds, less the carriage
\* return that a line feed ending it follows
LineOf(s, k) ==
  LET lo == IF k = 1 THEN 1 ELSE NthLineFeed(s, k - 1) + 1
      lf == IF k > Cardinality(LineFeeds(s)) THEN Len(s) + 1 ELSE NthLineFeed(s, k)
      hi == IF lf <= Len(s) /\ lf - 1 >= lo /\ s[lf - 1] = CR THEN lf - 2 ELSE lf - 1
  IN SubSeq(s, lo, hi)

\* the lines of s that have a character other than white space
NonBlank(s) ==
  { k \in 1..(Cardinality(LineFeeds(s)) + 1) :
      \E c \in Range(LineOf(s, k)) : ~IsTrimSpace(c) }

\* C12: for a plain content with two or more non-blank lines (lines end at
\* \n or \r\n) RichText returns one paragraph per non-blank line, in the
\* order of the content, each holding its line untrimmed; blank lines give
\* no paragraph.
C12_ParagraphPerLine ==
  PlainDone =>
    LET s == Chars(content)
        K == NonBlank(s)
    IN Cardinality(K) >= 2 =>
         /\ rendered.mode = "paragraphs"
         /\ Len(rendered.lines) = Cardinality(K)
         /\ \A k \in K :
              rendered.lines[Cardinality({ j \in K : j <= k })] = LineOf(s, k)

C12_Witness ==
  /\ PlainDone
  /\ rendered.mode = "paragraphs"
  /\ Len(rendered.lines) = 2
  /\ Cardinality(LineFeeds(Chars(content))) = 2
  /\ CR \in Range(Chars(content))
  /\ rendered.lines[1] # Trim(rendered.lines[1])

\* C13: for a plain content with no or one non-blank line RichText returns
\* the content itself, blank lines and outer white space included, as one
\* text block and no paragraph.
C13_SingleBlock ==
  PlainDone =>
    (Cardinality(NonBlank(Chars(content))) <= 1 =>
       /\ rendered.mode = "text"
       /\ rendered.text = Chars(content)
       /\ rendered.lines = <<>>)

C13_Witness ==
  /\ PlainDone
  /\ rendered.mode = "text"
  /\ Cardinality(NonBlank(Chars(content))) = 1
  /\ Cardinality(LineFeeds(Chars(content))) >= 2
  /\ rendered.text # Trim(rendered.text)

RECURSIVE IsUnder(_, _, _)
\* node n is a descendant of node root
IsUnder(nodes, n, root) ==
  /\ n # NULL
  /\ nodes[n].parent = root \/ IsUnder(nodes, nodes[n].parent, root)

\* the elements with local name tag that body.innerHTML writes
ElementsOut(nodes, tag) ==
  { n \in DOMAIN nodes :
      nodes[n].type = "element" /\ nodes[n].localName = tag /\ IsUnder(nodes, n, BODY) }

NodeAttrNames(node) == { node.attrs[i].name : i \in DOMAIN node.attrs }

NodeAttrValue(node, n) ==
  node.attrs[CHOOSE i \in DOMAIN node.attrs : node.attrs[i].name = n].value

\* C14: an anchor of the tree sanitizeHtml serializes has no attribute other
\* than href, title, target and rel; the title the parser gave it is still
\* there with its value, and so is an href that starts with an allowed prefix.
C14_AnchorAttrs ==
  Sanitized =>
    LET before == ParseFromString(content)
    IN \A n \in ElementsOut(doc, S_a) :
         /\ NodeAttrNames(doc[n]) \subseteq {S_href, S_title, S_target, S_rel}
         /\ \A x \in {S_href, S_title} \cap NodeAttrNames(before[n]) :
              (x = S_href => HrefOk(NodeAttrValue(before[n], x)))
                => /\ x \in NodeAttrNames(doc[n])
                   /\ NodeAttrValue(doc[n], x) = NodeAttrValue(before[n], x)

\* C15: the sanitizeHtml calls of a transcript do not disturb each other:
\* however their steps interleave, a call that returns normally returns what
\* sanitizeHtml gives for its own input alone, and a Document is changed only
\* by the call that parsed it.
C15_Independent ==
  \A i \in CallIds :
    /\ (calls[i].pc = "done" /\ ~calls[i].threw)
         => calls[i].safe = sanitizeHtml(calls[i].input)
    /\ calls[i].pc = "walk" => docs[i] = ParseFromString(calls[i].input)
    /\ calls[i].pc = "idle" => docs[i] = <<>>

C15_Witness ==
  /\ calls[1].pc = "done" /\ ~calls[1].threw
  /\ calls[2].pc = "done" /\ ~calls[2].threw
  /\ calls[1].safe # <<>>
  /\ calls[2].safe # <<>>
  /\ Chars(calls[1].safe) # Chars(calls[2].safe)
  /\ docs[1] # docs[2]
  /\ docs[1] # ParseFromString(calls[1].input)

\* walk(body) has returned and nothing has thrown
Walked == pc = "serialize" \/ Sanitized

\* C16: the walk starts at the body element and the markup returned is that
\* element's content; the walk leaves the body element where it is, a child
\* of the html element, and has been called on every element and comment
\* under it, so that all that is serialized has gone through the walk.
C16_RootWalked ==
  Walked =>
    /\ visited # <<>>
    /\ Head(visited) = BODY
    /\ doc[BODY].parent = HTML
    /\ BODY \in Range(doc[HTML].kids)
    /\ \A n \in DOMAIN doc :
         (IsUnder(doc, n, BODY) /\ doc[n].type \in {"element", "comment"})
           => n \in Range(visited)
    /\ Sanitized => safe = InnerHTML(doc, BODY)

\* before[n] is an element whose tag is outside ALLOWED_TAGS
Disallowed(before, n) ==
  before[n].type = "element" /\ before[n].localName \notin ALLOWED_TAGS

\* the children of p the walk leaves a node for: all but the comments it met
Stay(before, p) ==
  SelectSeq(before[p].kids,
            LAMBDA k : ~(before[k].type = "comment" /\ k \in Range(visited)))

\* C17: an element with a tag outside ALLOWED_TAGS that walk is called on is
\* replaced, at its place among its siblings, by one new Text node whose data
\* is the element's text content; the element, with its attributes and its
\* descendants, is no longer in the document, and walk is called on none of
\* its descendants.
C17_ReplacedByText ==
  pc = "walked" =>
    LET before == ParseFromString(content)
    IN \A n \in Range(visited) :
         Disallowed(before, n) =>
           LET p == before[n].parent
               stay == Stay(before, p)
               j == IndexOf(stay, n)
               t == doc[p].kids[j]
           IN /\ Len(doc[p].kids) = Len(stay)
              /\ t \notin DOMAIN before
              /\ doc[t] = [TextNode(TextContent(before, n)) EXCEPT !.parent = p]
              /\ doc[n].parent = NULL
              /\ \A m \in DOMAIN doc : n \notin Range(doc[m].kids)
              /\ \A m \in DOMAIN before :
                   IsUnder(before, m, n) => m \notin Range(visited) /\ doc[m] = before[m]

C17_Witness ==
  /\ pc = "walked"
  /\ \E n \in Range(visited) :
       LET before == ParseFromString(content)
       IN /\ Disallowed(before, n)
          /\ n # BODY
          /\ before[n].attrs # <<>>
          /\ before[n].parent # BODY
          /\ \E m \in DOMAIN before : IsUnder(before, m, n) /\ before[m].type = "text"

\* C18: when walk goes through the children of a node, it is called once on
\* each child the node had when walk was called on it, in their order,
\* whatever the calls on the earlier children removed or replaced.
C18_SnapshotOrder ==
  pc = "walked" =>
    LET before == ParseFromString(content)
    IN \A p \in Range(visited) :
         (before[p].type = "element" /\ ~Disallowed(before, p))
           => SelectSeq(visited, LAMBDA v : before[v].parent = p) = before[p].kids

C18_Witness ==
  /\ pc = "walked"
  /\ \E p \in Range(visited) :
       LET before == ParseFromString(content)
       IN /\ before[p].type = "element" /\ ~Disallowed(before, p)
          /\ Len(before[p].kids) = 2
          /\ before[before[p].kids[1]].type = "comment"
          /\ Disallowed(before, before[p].kids[2])
          /\ Len(doc[p].kids) = 1
          /\ doc[doc[p].kids[1]].type = "text"

RECURSIVE PermittedPath(_, _)
\* n is an element with a permitted tag, below the body, and so is every
\* ancestor of n below the body
PermittedPath(before, n) ==
  /\ n # NULL
  /\ before[n].type = "element"
  /\ before[n].localName \in ALLOWED_TAGS
  /\ before[n].parent = BODY \/ PermittedPath(before, before[n].parent)

\* C19: an element with a permitted tag, all of whose ancestors below the
\* body are permitted too, is in the tree sanitizeHtml serializes with the
\* tag and the parent the parser gave it, and in the same order with respect
\* to its siblings of that kind.
C19_PermittedKept ==
  Sanitized =>
    LET before == ParseFromString(content)
    IN /\ safe = InnerHTML(doc, BODY)
       /\ \A n \in DOMAIN before :
            PermittedPath(before, n) =>
              LET p == before[n].parent
              IN /\ doc[n].type = "element"
                 /\ doc[n].localName = before[n].localName
                 /\ doc[n].parent = p
                 /\ n \in Range(doc[p].kids)
                 /\ \A m \in Range(before[p].kids) :
                      PermittedPath(before, m) =>
                        (IndexOf(before[p].kids, m) < IndexOf(before[p].kids, n)
                           <=> IndexOf(doc[p].kids, m) < IndexOf(doc[p].kids, n))

C19_Witness ==
  /\ Sanitized
  /\ LET before == ParseFromString(content)
     IN /\ \E n \in DOMAIN before :
             PermittedPath(before, n) /\ before[n].parent # BODY
        /\ \E n \in DOMAIN before : before[n].type = "comment"
        /\ doc # before

\* nothing is left to happen unless the user acts: every request has
\* settled, every effect has run, no timer is pending
Quiescent == mounted /\ Settled /\ loads = {} /\ fetches = {} /\ ~retryTimer

\* what the Analyse tab shows
ShowsAnalysis == ~page.longformLoading /\ ~page.longformError /\ page.longform # NULL

ShowsRetry == ~page.longformLoading /\ page.longformError

\* C20: with the article loaded and the Analyse tab active, once every
\* request has settled and every effect has run the tab shows the analysis or
\* an error with Retry: it is not left with longformLoading false, longform
\* null and longformError empty, nor with longformLoading true.
C20_AnalysisOrRetry ==
  (Quiescent /\ ArticleShown /\ page.data # NULL /\ page.activeTab = "future")
    => ShowsAnalysis \/ ShowsRetry

\* C21: a longform analysis kept as the one of the current article (longform
\* not null, longformForId equal to articleId) was requested with the data of
\* that article.
C21_AnalysisOfArticle ==
  (page.longform # NULL /\ page.longformForId = articleId)
    => page.longform = articleId

\* the longform requests that were not aborted
Outstanding(fs) == { f \in fs : ~f.aborted }

\* the step runs the longform effect again, or unmounts the page
EffectReRun == effects'.fetch # effects.fetch \/ (mounted /\ ~mounted')

\* the step is the settling of the longform request f
FetchSettles(f) == f \in fetches /\ fetches' = fetches \ {f}

Loaded == page.longform # NULL /\ page.longformForId = articleId

\* C23: once the analysis of the current article is loaded, no step that
\* keeps the article (a change of tab and the renders and effect runs after
\* it among them) sends a longform request, and longform stays as it is.
C23_NoRefetch ==
  [][ (mounted /\ Loaded /\ articleId' = articleId)
        => /\ page'.longform = page.longform
           /\ Outstanding(fetches') = {} ]_vars

\* the analysis was loaded, the Analyse tab was left (the longform effect ran
\* for another tab with this analysis) and has been opened again
C23_Witness ==
  /\ mounted
  /\ Loaded
  /\ page.activeTab = "future"
  /\ effects.fetch # <<>>
  /\ effects.fetch[1] # "future"
  /\ effects.fetch[4] = page.longform

\* the step is the settling of the article request r
LoadSettles(r) == r \in loads /\ loads' = loads \ {r}

\* the article request of the current route id, issued by the load effect's
\* latest run
CurrentLoad(r) == mounted /\ ~r.cancelled /\ r.id = articleId

\* C24: the answer (the article's JSON or a failure) to an article request
\* of an earlier route id, or one that arrives after the unmount, changes
\* none of data, error and loading; data is set, an error is set and loading
\* is set to false only by the settling of the request of the current id.
C24_StaleIgnored ==
  [][ /\ \A r \in loads :
           (LoadSettles(r) /\ ~CurrentLoad(r))
             => /\ page'.data = page.data
                /\ page'.error = page.error
                /\ page'.loading = page.loading
      /\ (\/ page'.data # page.data
          \/ (page'.error /\ ~page.error)
          \/ (page.loading /\ ~page'.loading))
           => \E r \in loads : LoadSettles(r) /\ CurrentLoad(r) ]_vars

\* the request of an earlier route id is still in flight beside the one of
\* the current id, or a request is in flight after the unmount
C24_Witness ==
  \E r \in loads :
    /\ r.cancelled
    /\ \/ ~mounted
       \/ (r.id # articleId /\ \E q \in loads : CurrentLoad(q))

\* the texts sendUserMessage is called with
UserTexts == Texts \cup {<<>>} \cup { Question(a) : a \in Articles }

\* s is t with one element appended
Appends(s, t) == Len(s) = Len(t) + 1 /\ SubSeq(s, 1, Len(t)) = t

\* what a call of sendUserMessage with userText would do now
SendsOnce(userText) ==
  LET r == sendUserMessage(chat, queries, chat.isLoading, userText)
  IN IF Trim(userText) = <<>> \/ chat.isLoading
     THEN r = ChatState(chat, queries)
     ELSE /\ r.chat.messages = Append(chat.messages, UserMessage(Trim(userText)))
          /\ r.queries = Append(queries, Trim(userText))
          /\ r.chat.isLoading
          /\ r.chat.isOpen = chat.isOpen

\* user, assistant, user, assistant, ...
Alternating(ms) ==
  \A i \in DOMAIN ms : ms[i].role = (IF i % 2 = 1 THEN "user" ELSE "assistant")

\* C25: a call of sendUserMessage with a blank text or while isLoading
\* changes nothing, any other call appends one user message, issues one
\* query and sets isLoading; at most one query is outstanding, and isLoading
\* says whether one is; the messages alternate user, assistant and are only
\* appended to; a step that appends a user message issues exactly one
\* query; the settling of a query appends exactly one assistant message and
\* sets isLoading to false.
C25_OneQuery ==
  /\ [](/\ \A t \in UserTexts : SendsOnce(t)
        /\ Len(queries) <= 1
        /\ chat.isLoading <=> (queries # <<>>)
        /\ Alternating(chat.messages))
  /\ [][ /\ \/ chat'.messages = chat.messages
            \/ Appends(chat'.messages, chat.messages)
         /\ Appends(queries', queries)
              <=> (/\ Appends(chat'.messages, chat.messages)
                   /\ chat'.messages[Len(chat'.messages)].role = "user")
         /\ Len(queries') < Len(queries)
              => /\ Appends(chat'.messages, chat.messages)
                 /\ chat'.messages[Len(chat'.messages)].role = "assistant"
                 /\ ~chat'.isLoading
                 /\ Len(queries') = Len(queries) - 1 ]_vars

\* two queries were sent and answered, one of them the question of an
\* article, one of them with an error
C25_Witness ==
  /\ Len(chat.messages) = 4
  /\ queries = <<>>
  /\ cleared # <<>>
  /\ \E i \in DOMAIN chat.messages : chat.messages[i] = ErrorMessage
  /\ \E i \in DOMAIN chat.messages : chat.messages[i] = UserMessage(<<"h", "i">>)

\* C26: when the effect of [initialArticle] runs with an article the window
\* is open afterwards; and whenever onClearArticle is called, it is for an
\* article whose question "Tell me about this article: ..." that effect run
\* has appended as a user message and sent to the backend, also when another
\* query was in flight.
C26_QuestionSent ==
  [][ /\ (chatEffects'.open # chatEffects.open /\ initialArticle # NULL)
           => chat'.isOpen
      /\ cleared' # cleared
           => /\ Appends(chat'.messages, chat.messages)
              /\ Last(chat'.messages) = UserMessage(Question(Last(cleared')))
              /\ Appends(queries', queries)
              /\ Last(queries') = Question(Last(cleared')) ]_vars

====
